---- MODULE Spec2Model ----
(***************************************************************************)
(* Model of gorm's revision-windowed map (src/gorm/window.pyx).            *)
(*                                                                         *)
(* A WindowDict owns two Queues, _past and _future.  A Queue is a doubly   *)
(* linked list of QueueEntry objects reached through head and tail.  The   *)
(* model keeps the object graph: mem maps an object identity to the fields *)
(* of a QueueEntry, and a Queue is the pair of its head and tail           *)
(* references.  Every method is computed on this graph exactly as the      *)
(* source computes it, link by link.                                       *)
(***************************************************************************)
EXTENDS Integers, Sequences, FiniteSets, TLC

\* ---------------------------------------------------------------- bounds
\* revisions handed to the map are drawn from 0..MaxRev
MaxRev == 3
\* longest batch handed to update
MaxBatch == 2
\* revisions handed to the two maps that are compared are 0..MaxCmpRev
MaxCmpRev == 1
\* most elements the Trique is grown to
MaxLen == 2
\* Queue.popleft(i) and Queue.pop(i) are called with -(MaxPop + 1) <= i <= MaxPop
MaxPop == 2

Revs == 0..MaxRev
\* Python's None, the "unset" marker
None == "None"
\* the values a caller stores
Values == {"a", "b"}
\* the null reference (a QueueEntry/Queue field holding None)
Null == 0
\* object identities available to QueueEntry objects
\* (room for every entry one call can construct on top of the live ones)
MaxNodes == (MaxBatch + 1) * (MaxRev + 6)
NodeIds == 1..MaxNodes

VARIABLES
    mem,      \* identity -> fields of the QueueEntry with that identity
    past,     \* WindowDict._past   : [head, tail]
    future,   \* WindowDict._future : [head, tail]
    op,       \* the method called last
    arg,      \* its revision argument
    val,      \* its value argument
    batch,    \* the batch handed to update
    ret,      \* what the call returned or raised
    lastSet,  \* greatest revision handed to __setitem__ so far (SpecMono)
    past2,    \* _past of a second WindowDict (SpecCmp)
    future2,  \* _future of the second WindowDict (SpecCmp)
    trique,   \* a Trique: its entries, head, waist, tail and length
    ref       \* a list that is handed the same calls as the Trique

vars == <<mem, past, future, op, arg, val, batch, ret, lastSet,
          past2, future2, trique, ref>>

\* what a call on the first WindowDict leaves alone
elsewhere == <<past2, future2, trique, ref>>

\* ------------------------------------------------------------ QueueEntry
\* QueueEntry.__cinit__
QueueEntry(rev, value, prev, next) ==
    [rev |-> rev, value |-> value, prev |-> prev, next |-> next]

\* storage that holds no object (its revision is no revision)
FreeEntry == QueueEntry(-1, None, Null, Null)

\* Queue.__cinit__
Queue(head, tail) == [head |-> head, tail |-> tail]

\* the object graph of one WindowDict; fresh is the identity the next
\* constructed QueueEntry gets
State(m, p, f) ==
    [mem |-> m, past |-> p, future |-> f,
     fresh |-> 1 + Cardinality({i \in NodeIds : m[i] # FreeEntry})]

\* -------------------------------------------------- object identities
Min(S) == CHOOSE x \in S : \A y \in S : x <= y

RECURSIVE Closure(_, _)
Closure(m, R) ==
    LET R2 == R \cup (({m[n].next : n \in R} \cup {m[n].prev : n \in R}) \ {Null})
    IN IF R2 = R THEN R ELSE Closure(m, R2)

\* the entries some live reference leads to
Reach(st) ==
    Closure(st.mem, {st.past.head, st.past.tail,
                     st.future.head, st.future.tail} \ {Null})

\* identity of a newly constructed QueueEntry: one no other object has
NewEntry(st) == st.fresh

\* ------------------------------------------------------------------ Queue
\* Queue.__len__: walk next from head
RECURSIVE LenFrom(_, _, _)
LenFrom(m, e, fuel) ==
    IF e = Null \/ fuel = 0 THEN 0 ELSE 1 + LenFrom(m, m[e].next, fuel - 1)

QueueLen(m, q) == LenFrom(m, q.head, MaxNodes + 1)

\* Queue.__iter__: the entries from head along next
RECURSIVE IterFrom(_, _, _)
IterFrom(m, e, fuel) ==
    IF e = Null \/ fuel = 0 THEN <<>>
    ELSE <<e>> \o IterFrom(m, m[e].next, fuel - 1)

QueueIter(m, q) == IterFrom(m, q.head, MaxNodes + 1)

\* Queue.clear
QueueClear(st, q) == [st EXCEPT ![q] = Queue(Null, Null)]

\* Queue.appendentry
appendentry(st, q, e) ==
    LET t == st[q].tail
        m1 == IF t # Null
              THEN [st.mem EXCEPT ![t].next = e, ![e].prev = t]
              ELSE st.mem
        h1 == IF t # Null THEN st[q].head ELSE e
    IN [st EXCEPT !.mem = m1, ![q] = Queue(h1, e)]

\* Queue.append
append(st, q, rev, value) ==
    LET e == NewEntry(st)
        s1 == [st EXCEPT !.mem[e] = QueueEntry(rev, value, st[q].tail, Null),
                         !.fresh = e + 1]
    IN appendentry(s1, q, e)

\* Queue.appendleftentry
appendleftentry(st, q, e) ==
    LET h == st[q].head
        m1 == IF h # Null
              THEN [st.mem EXCEPT ![h].prev = e, ![e].next = h]
              ELSE st.mem
        t1 == IF h # Null THEN st[q].tail ELSE e
    IN [st EXCEPT !.mem = m1, ![q] = Queue(e, t1)]

\* Queue.appendleft
appendleft(st, q, rev, value) ==
    LET e == NewEntry(st)
        s1 == [st EXCEPT !.mem[e] = QueueEntry(rev, value, Null, st[q].head),
                         !.fresh = e + 1]
    IN appendleftentry(s1, q, e)

\* Queue._pop_left (called on a non-empty queue): the state and the entry
_pop_left(st, q) ==
    LET e == st[q].head
        h1 == st.mem[e].next
        s1 == IF h1 = Null
              THEN [st EXCEPT ![q] = Queue(Null, Null)]
              ELSE [st EXCEPT ![q] = Queue(h1, st[q].tail),
                              !.mem[h1].prev = Null]
    IN [st |-> s1, e |-> e]

\* Queue._pop (called on a non-empty queue): the state and the entry
_pop(st, q) ==
    LET e == st[q].tail
        t1 == st.mem[e].prev
        s1 == IF t1 = Null
              THEN [st EXCEPT ![q] = Queue(Null, Null)]
              ELSE [st EXCEPT ![q] = Queue(st[q].head, t1),
                              !.mem[t1].next = Null]
    IN [st |-> s1, e |-> e]

\* the object graph while Queue.popleft(i) or Queue.pop(i) runs: popped is
\* the local Queue of the call

\* what a call hands back: the object graph it leaves and its outcome
Ok(st) == [st |-> st, kind |-> "ok", val |-> None, rev |-> 0]
OkVal(st, v) == [st |-> st, kind |-> "ok", val |-> v, rev |-> 0]
OkRev(st, r) == [st |-> st, kind |-> "ok", val |-> None, rev |-> r]
Raise(st, exc) == [st |-> st, kind |-> exc, val |-> None, rev |-> 0]

\* the walks of Queue.__getitem__: i steps along next from the head, or
\* along prev from the tail; Null when the chain ends first (IndexError)
RECURSIVE stepNext(_, _, _)
stepNext(m, e, i) ==
    IF i <= 0 THEN e
    ELSE IF m[e].next = Null THEN Null ELSE stepNext(m, m[e].next, i - 1)

RECURSIVE stepPrev(_, _, _)
stepPrev(m, e, i) ==
    IF i >= -1 THEN e
    ELSE IF m[e].prev = Null THEN Null ELSE stepPrev(m, m[e].prev, i + 1)

\* Queue.__getitem__: the entry at index i, Null standing for IndexError
queue_getitem(st, q, i) ==
    IF st[q].head = Null \/ st[q].tail = Null THEN Null
    ELSE IF i = 0 THEN st[q].head
    ELSE IF i = -1 THEN st[q].tail
    ELSE IF i > 0 THEN stepNext(st.mem, st[q].head, i)
    ELSE stepPrev(st.mem, st[q].tail, i)

\* Queue.__setitem__: q[i] = (rev, value) rewrites the entry at i; at index
\* 0 with no head, and at index -1 with no tail, it constructs the only entry
queue_setitem(st, q, i, rev, value) ==
    LET n == NewEntry(st)
        only == [st EXCEPT !.mem[n] = QueueEntry(rev, value, Null, Null),
                           ![q] = Queue(n, n),
                           !.fresh = n + 1]
        rewrite(e) == [st EXCEPT !.mem[e].rev = rev, !.mem[e].value = value]
    IN IF i = 0
       THEN IF st[q].head = Null THEN Ok(only) ELSE Ok(rewrite(st[q].head))
       ELSE IF i = -1
            THEN IF st[q].tail = Null THEN Ok(only) ELSE Ok(rewrite(st[q].tail))
            ELSE LET entry == queue_getitem(st, q, i)
                 IN IF entry = Null THEN Raise(st, "IndexError")
                    ELSE Ok(rewrite(entry))

WithPopped(st) ==
    [mem |-> st.mem, past |-> st.past, future |-> st.future,
     fresh |-> st.fresh, popped |-> Queue(Null, Null)]

\* a Queue method returned the entry e
Popped(st, e) ==
    [st |-> st, kind |-> "ok", val |-> st.mem[e].value, rev |-> st.mem[e].rev]
PopRaise(st, exc) == [st |-> st, kind |-> exc, val |-> None, rev |-> 0]

\* while i > 0: popped.appendentry(self.popleft()); i -= 1
RECURSIVE popleftLoop(_, _, _)
popleftLoop(st, q, i) ==
    IF i <= 0 THEN PopRaise(st, "ok")
    ELSE IF st[q].head = Null THEN PopRaise(st, "IndexError")
    ELSE LET p == _pop_left(st, q)
         IN popleftLoop(appendentry(p.st, "popped", p.e), q, i - 1)

\* while i < -1: popped.appendentry(self.pop()); i += 1
RECURSIVE popLoop(_, _, _)
popLoop(st, q, i) ==
    IF i >= -1 THEN PopRaise(st, "ok")
    ELSE IF st[q].tail = Null THEN PopRaise(st, "IndexError")
    ELSE LET p == _pop(st, q)
         IN popLoop(appendentry(p.st, "popped", p.e), q, i + 1)

\* ret = popped.pop(), then the test popped.next is not None of the loop
\* that puts the entries back: a Queue has head and tail, no next
putBack(r) ==
    IF r.kind # "ok" THEN r
    ELSE PopRaise(_pop(r.st, "popped").st, "AttributeError")

\* Queue.popleft and Queue.pop
RECURSIVE popleft(_, _, _), pop(_, _, _)
popleft(st, q, i) ==
    IF i > 0 THEN putBack(popleftLoop(WithPopped(st), q, i))
    ELSE IF i < 0 THEN pop(st, q, i)
    ELSE IF st[q].head = Null THEN PopRaise(st, "IndexError")
    ELSE Popped(_pop_left(st, q).st, _pop_left(st, q).e)

pop(st, q, i) ==
    IF i > -1 THEN popleft(st, q, i)
    ELSE IF i < -1 THEN putBack(popLoop(WithPopped(st), q, i))
    ELSE IF st[q].tail = Null THEN PopRaise(st, "IndexError")
    ELSE Popped(_pop(st, q).st, _pop(st, q).e)

\* ------------------------------------------------------------- WindowDict
\* seekPast with an if in place of the while: one entry moves at most
seekPast_once(st, rev) ==
    IF QueueLen(st.mem, st.past) > 0
    THEN LET p == _pop(st, "past")
             chkrev == p.st.mem[p.e].rev
             v == p.st.mem[p.e].value
         IN IF chkrev < rev
            THEN append(p.st, "past", chkrev, v)
            ELSE appendleft(p.st, "future", chkrev, v)
    ELSE st

\* seekPast that forgets to put the popped entry back when it stops
RECURSIVE seekPast_drop(_, _)
seekPast_drop(st, rev) ==
    IF QueueLen(st.mem, st.past) > 0
    THEN LET p == _pop(st, "past")
             chkrev == p.st.mem[p.e].rev
             v == p.st.mem[p.e].value
         IN IF chkrev < rev
            THEN p.st
            ELSE seekPast_drop(appendleft(p.st, "future", chkrev, v), rev)
    ELSE st

\* first loop of WindowDict.seek: move the tail of _past to the head of
\* _future until the popped revision is below rev
RECURSIVE seekPast(_, _)
seekPast(st, rev) ==
    IF QueueLen(st.mem, st.past) > 0
    THEN LET p == _pop(st, "past")
             chkrev == p.st.mem[p.e].rev
             v == p.st.mem[p.e].value
         IN IF chkrev < rev
            THEN append(p.st, "past", chkrev, v)
            ELSE seekPast(appendleft(p.st, "future", chkrev, v), rev)
    ELSE st

\* seekFuture that stops at chkrev >= rev: the entry recorded at rev itself
\* stays in _future
RECURSIVE seekFuture_ge(_, _)
seekFuture_ge(st, rev) ==
    IF QueueLen(st.mem, st.future) > 0
    THEN LET p == _pop_left(st, "future")
             chkrev == p.st.mem[p.e].rev
             v == p.st.mem[p.e].value
         IN IF chkrev >= rev
            THEN appendleft(p.st, "future", chkrev, v)
            ELSE seekFuture_ge(append(p.st, "past", chkrev, v), rev)
    ELSE st

\* second loop of WindowDict.seek: move the head of _future to the tail of
\* _past until the popped revision is above rev
RECURSIVE seekFuture(_, _)
seekFuture(st, rev) ==
    IF QueueLen(st.mem, st.future) > 0
    THEN LET p == _pop_left(st, "future")
             chkrev == p.st.mem[p.e].rev
             v == p.st.mem[p.e].value
         IN IF chkrev > rev
            THEN appendleft(p.st, "future", chkrev, v)
            ELSE seekFuture(append(p.st, "past", chkrev, v), rev)
    ELSE st

\* WindowDict.seek
seek(st, rev) == seekFuture(seekPast(st, rev), rev)

\* WindowDict.__getitem__
getitem(st, rev) ==
    LET s1 == seek(st, rev)
    IN IF s1.past.head = Null \/ s1.past.tail = Null
       THEN Raise(s1, "KeyError")
       ELSE OkVal(s1, s1.mem[s1.past.tail].value)

\* WindowDict.get
get(st, rev, default) ==
    LET r == getitem(st, rev)
    IN IF r.kind = "KeyError" THEN OkVal(r.st, default) ELSE r

\* rev_before that seeks to the revision before rev ("prior to rev")
rev_before_strict(st, rev) ==
    LET s1 == seek(st, rev - 1)
    IN IF QueueLen(s1.mem, s1.past) = 0
       THEN Raise(s1, "KeyError")
       ELSE OkRev(s1, s1.mem[s1.past.tail].rev)

\* WindowDict.rev_before
rev_before(st, rev) ==
    LET s1 == seek(st, rev)
    IN IF QueueLen(s1.mem, s1.past) = 0
       THEN Raise(s1, "KeyError")
       ELSE IF s1.past.tail = Null
            THEN Raise(s1, "IndexError")
            ELSE OkRev(s1, s1.mem[s1.past.tail].rev)

\* WindowDict.rev_after: declared to return a C int, so the fall-through
\* when _future is empty hands back 0
rev_after(st, rev) ==
    LET s1 == seek(st, rev)
    IN IF QueueLen(s1.mem, s1.future) > 0
       THEN OkRev(s1, s1.mem[s1.future.head].rev)
       ELSE OkRev(s1, 0)

\* __setitem__ that appends also when rev is the revision of the tail
setitem_dup(st, rev, v) ==
    LET s1 == IF QueueLen(st.mem, st.past) = 0
                 /\ QueueLen(st.mem, st.future) = 0
              THEN append(st, "past", rev, v)
              ELSE st
        s2 == seek(s1, rev)
    IN IF QueueLen(s2.mem, s2.past) = 0
       THEN Ok(append(s2, "past", rev, v))
       ELSE LET pastrev == s2.mem[s2.past.tail].rev
            IN IF rev >= pastrev
               THEN Ok(append(s2, "past", rev, v))
               ELSE Raise(s2, "AssertionError")

\* __setitem__ whose overwrite of the tail leaves the old value in place
setitem_keepvalue(st, rev, v) ==
    LET s1 == IF QueueLen(st.mem, st.past) = 0
                 /\ QueueLen(st.mem, st.future) = 0
              THEN append(st, "past", rev, v)
              ELSE st
        s2 == seek(s1, rev)
    IN IF QueueLen(s2.mem, s2.past) = 0
       THEN Ok(append(s2, "past", rev, v))
       ELSE LET t == s2.past.tail
                pastrev == s2.mem[t].rev
            IN IF rev = pastrev
               THEN Ok([s2 EXCEPT !.mem[t].rev = rev])
               ELSE IF rev > pastrev
                    THEN Ok(append(s2, "past", rev, v))
                    ELSE Raise(s2, "AssertionError")

\* __setitem__ that inserts without seeking first
setitem_noseek(st, rev, v) ==
    IF QueueLen(st.mem, st.past) = 0
    THEN Ok(append(st, "past", rev, v))
    ELSE LET t == st.past.tail
             pastrev == st.mem[t].rev
         IN IF rev = pastrev
            THEN Ok([st EXCEPT !.mem[t].rev = rev, !.mem[t].value = v])
            ELSE IF rev > pastrev
                 THEN Ok(append(st, "past", rev, v))
                 ELSE Raise(st, "AssertionError")

\* __setitem__ whose seek runs the loop over _past only
setitem_pastonly(st, rev, v) ==
    LET s1 == IF QueueLen(st.mem, st.past) = 0
                 /\ QueueLen(st.mem, st.future) = 0
              THEN append(st, "past", rev, v)
              ELSE st
        s2 == seekPast(s1, rev)
    IN IF QueueLen(s2.mem, s2.past) = 0
       THEN Ok(append(s2, "past", rev, v))
       ELSE LET t == s2.past.tail
                pastrev == s2.mem[t].rev
            IN IF rev = pastrev
               THEN Ok([s2 EXCEPT !.mem[t].rev = rev, !.mem[t].value = v])
               ELSE IF rev > pastrev
                    THEN Ok(append(s2, "past", rev, v))
                    ELSE Raise(s2, "AssertionError")

\* WindowDict.__setitem__
setitem(st, rev, v) ==
    LET s1 == IF QueueLen(st.mem, st.past) = 0
                 /\ QueueLen(st.mem, st.future) = 0
              THEN append(st, "past", rev, v)
              ELSE st
        s2 == seek(s1, rev)
    IN IF QueueLen(s2.mem, s2.past) = 0
       THEN Ok(append(s2, "past", rev, v))
       ELSE LET t == s2.past.tail
                pastrev == s2.mem[t].rev
            IN IF rev = pastrev
               THEN Ok([s2 EXCEPT !.mem[t].rev = rev, !.mem[t].value = v])
               ELSE IF rev > pastrev
                    THEN Ok(append(s2, "past", rev, v))
                    ELSE Raise(s2, "AssertionError")

\* first loop of WindowDict.__delitem__: the entries of _past go, tail
\* first, to the head of _future (the entries themselves, not copies)
RECURSIVE delPast(_)
delPast(st) ==
    IF QueueLen(st.mem, st.past) > 0
    THEN LET p == _pop(st, "past")
         IN delPast(appendleftentry(p.st, "future", p.e))
    ELSE st

\* second loop of __delitem__ that does not keep the entries below rev
RECURSIVE delFuture_drop(_, _, _)
delFuture_drop(st, rev, nothing) ==
    IF QueueLen(st.mem, st.future) > 0
    THEN LET p == _pop_left(st, "future")
         IN IF p.st.mem[p.e].rev >= rev
            THEN QueueClear(appendentry(p.st, "past", nothing), "future")
            ELSE delFuture_drop(p.st, rev, nothing)
    ELSE st

\* second loop of WindowDict.__delitem__
RECURSIVE delFuture(_, _, _)
delFuture(st, rev, nothing) ==
    IF QueueLen(st.mem, st.future) > 0
    THEN LET p == _pop_left(st, "future")
         IN IF p.st.mem[p.e].rev >= rev
            THEN QueueClear(appendentry(p.st, "past", nothing), "future")
            ELSE delFuture(appendentry(p.st, "past", p.e), rev, nothing)
    ELSE st

\* WindowDict.__delitem__
delitem(st, rev) ==
    LET nothing == NewEntry(st)
        s1 == [st EXCEPT !.mem[nothing] = QueueEntry(rev, None, Null, Null),
                         !.fresh = nothing + 1]
    IN delFuture(delPast(s1), rev, nothing)

\* WindowDict.setdefault: the value d[rev] gives; when that raises KeyError
\* the default is stored at rev by __setitem__ and handed back
setdefault(st, rev, default) ==
    LET r == getitem(st, rev)
    IN IF r.kind = "KeyError"
       THEN LET s == setitem(r.st, rev, default)
            IN IF s.kind = "ok" THEN OkVal(s.st, default) ELSE s
       ELSE r

\* WindowDict.pop: the value d[rev] gives, then del d[rev]; an exception of
\* d[rev] leaves the call before anything is deleted
dict_pop(st, rev) ==
    LET r == getitem(st, rev)
    IN IF r.kind = "ok" THEN OkVal(delitem(r.st, rev), r.val) ELSE r

\* WindowDict.popitem: as pop, the result being the pair (rev, value)
popitem(st, rev) ==
    LET r == getitem(st, rev)
    IN IF r.kind = "ok"
       THEN [st |-> delitem(r.st, rev), kind |-> "ok", val |-> r.val, rev |-> rev]
       ELSE r

\* WindowDict.clear
clear(st) == QueueClear(QueueClear(st, "past"), "future")

\* WindowDict.update with a sequence of (revision, value) pairs: one
\* __setitem__ per pair, in the order given; an exception ends the loop
RECURSIVE update(_, _)
update(st, E) ==
    IF E = <<>> THEN Ok(st)
    ELSE LET r == setitem(st, E[1][1], E[1][2])
         IN IF r.kind = "ok" THEN update(r.st, Tail(E)) ELSE r

\* WindowDict.__contains__: item is the revision of a recorded entry
contains(st, item) ==
    \/ \E i \in 1..Len(QueueIter(st.mem, st.past)) :
           st.mem[QueueIter(st.mem, st.past)[i]].rev = item
    \/ \E i \in 1..Len(QueueIter(st.mem, st.future)) :
           st.mem[QueueIter(st.mem, st.future)[i]].rev = item

\* record == item in ItemsView.__contains__, record a QueueEntry and item a
\* (revision, value) tuple: QueueEntry defines no comparison and a tuple
\* does not compare with it, so == is object identity, and a QueueEntry is
\* never the tuple
EntryEqualsTuple(m, e, item) == FALSE

\* ItemsView.__contains__ for a (revision, value) tuple
ItemsContains(st, item) ==
    \/ \E i \in 1..Len(QueueIter(st.mem, st.past)) :
           EntryEqualsTuple(st.mem, QueueIter(st.mem, st.past)[i], item)
    \/ \E i \in 1..Len(QueueIter(st.mem, st.future)) :
           EntryEqualsTuple(st.mem, QueueIter(st.mem, st.future)[i], item)

\* ItemsView.__iter__ of WindowDict.items(): the entries of _past, then
\* those of _future, as (revision, value) pairs
EntryPair(m, e) == <<m[e].rev, m[e].value>>
Pairs(m, es) == [i \in 1..Len(es) |-> EntryPair(m, es[i])]
items(m, p, f) == Pairs(m, QueueIter(m, p)) \o Pairs(m, QueueIter(m, f))

\* ------------------------------------------------- canonical identities
\* An object's identity is only ever compared with other identities, so two
\* object graphs that differ by a renaming of identities are the same
\* program state.  Normalize names the entries 1, 2, ... in the order
\* _past then _future are walked, and releases the objects nothing refers to.
RECURSIVE ChainFrom(_, _, _)
ChainFrom(m, e, seen) ==
    IF e = Null \/ e \in seen THEN <<>>
    ELSE <<e>> \o ChainFrom(m, m[e].next, seen \cup {e})

Range(s) == {s[i] : i \in 1..Len(s)}

RECURSIVE SortedSeq(_)
SortedSeq(S) ==
    IF S = {} THEN <<>> ELSE <<Min(S)>> \o SortedSeq(S \ {Min(S)})

Normalize(st) ==
    LET c1 == ChainFrom(st.mem, st.past.head, {})
        c2 == ChainFrom(st.mem, st.future.head, Range(c1))
        c3 == SortedSeq(Reach(st) \ (Range(c1) \cup Range(c2)))
        order == c1 \o c2 \o c3
        name(e) == IF e = Null THEN Null
                   ELSE CHOOSE i \in 1..Len(order) : order[i] = e
        m1 == [i \in NodeIds |->
                 IF i <= Len(order)
                 THEN QueueEntry(st.mem[order[i]].rev, st.mem[order[i]].value,
                                 name(st.mem[order[i]].prev),
                                 name(st.mem[order[i]].next))
                 ELSE FreeEntry]
    IN State(m1, Queue(name(st.past.head), name(st.past.tail)),
                 Queue(name(st.future.head), name(st.future.tail)))

\* ----------------------------------------------------- comparing two maps
\* the object graph of two WindowDicts, self (past, future) and other
\* (past2, future2), with the two local queues of __richcmp__
State2(m, p, f, p2, f2) ==
    [mem |-> m, past |-> p, future |-> f, past2 |-> p2, future2 |-> f2,
     myhist |-> Queue(Null, Null), yourhist |-> Queue(Null, Null),
     fresh |-> 1 + Cardinality({i \in NodeIds : m[i] # FreeEntry})]

\* the same graph with other in the place of self
Swap(st) ==
    [st EXCEPT !.past = st.past2, !.future = st.future2,
               !.past2 = st.past, !.future2 = st.future]

\* a call on other: the call's outcome with the graph swapped back
OnOther(r) == [r EXCEPT !.st = Swap(r.st)]

\* for record in q: h.appendentry(record), from the entry e on; Queue.__iter__
\* reads e.next after the loop body has run. Only the body run on the first
\* record can change a next link (it links the tail of h to the record;
\* later records are already what the tail's next is), so the walk that
\* comes to an entry it has yielded before (seen) goes round for ever and
\* the call does not return
RECURSIVE CopyFrom(_, _, _, _)
CopyFrom(st, h, e, seen) ==
    LET s1 == appendentry(st, h, e)
        nx == s1.mem[e].next
    IN IF nx = Null THEN Ok(s1)
       ELSE IF nx \in seen \cup {e} THEN Raise(s1, "NoReturn")
       ELSE CopyFrom(s1, h, nx, seen \cup {e})

\* one of the four copying loops of __richcmp__, after what came before it
\* left r
CopyQueue(r, h, q) ==
    IF r.kind # "ok" \/ r.st[q].head = Null THEN r
    ELSE CopyFrom(r.st, h, r.st[q].head, {})

\* a comparison's result
Bool(st, b) ==
    [st |-> st, kind |-> "ok", val |-> IF b THEN "True" ELSE "False",
     rev |-> 0]

\* the loop of __richcmp__ for ==; myrec != yourrec compares two QueueEntry
\* objects, which define no comparison: they differ unless they are the
\* same object
RECURSIVE EqLoop(_)
EqLoop(st) ==
    IF st.myhist.head # Null
    THEN IF st.yourhist.head = Null
         THEN Bool(st, FALSE)
         ELSE LET p1 == _pop_left(st, "myhist")
                  p2 == _pop_left(p1.st, "yourhist")
              IN IF p1.e # p2.e THEN Bool(p2.st, FALSE) ELSE EqLoop(p2.st)
    ELSE Bool(st, st.yourhist.head = Null)

\* the loop of __richcmp__ for !=
RECURSIVE NeLoop(_)
NeLoop(st) ==
    IF st.myhist.head # Null
    THEN IF st.yourhist.head = Null
         THEN Bool(st, TRUE)
         ELSE LET p1 == _pop_left(st, "myhist")
                  p2 == _pop_left(p1.st, "yourhist")
              IN IF p1.e # p2.e THEN Bool(p2.st, TRUE) ELSE NeLoop(p2.st)
    ELSE Bool(st, st.yourhist.head # Null)

\* WindowDict.__richcmp__(self, other, cop), cop 2 for == and 3 for !=
richcmp(st, cop) ==
    LET r1 == CopyQueue(Ok(st), "myhist", "past")
        r2 == CopyQueue(r1, "myhist", "future")
        r3 == CopyQueue(r2, "yourhist", "past2")
        r4 == CopyQueue(r3, "yourhist", "future2")
        s4 == r4.st
    IN IF r4.kind # "ok" THEN r4
       ELSE IF cop = 2
       THEN EqLoop(s4)
       ELSE IF s4.myhist.head # s4.yourhist.head
               \/ s4.myhist.tail # s4.yourhist.tail
            THEN Bool(s4, TRUE)
            ELSE NeLoop(s4)

\* the entries some live reference of either map leads to
Reach2(st) ==
    Closure(st.mem, {st.past.head, st.past.tail,
                     st.future.head, st.future.tail,
                     st.past2.head, st.past2.tail,
                     st.future2.head, st.future2.tail} \ {Null})

\* Normalize for the graph of two maps
Normalize2(st) ==
    LET c1 == ChainFrom(st.mem, st.past.head, {})
        c2 == ChainFrom(st.mem, st.future.head, Range(c1))
        c3 == ChainFrom(st.mem, st.past2.head, Range(c1 \o c2))
        c4 == ChainFrom(st.mem, st.future2.head, Range(c1 \o c2 \o c3))
        c5 == SortedSeq(Reach2(st) \ Range(c1 \o c2 \o c3 \o c4))
        order == c1 \o c2 \o c3 \o c4 \o c5
        name(e) == IF e = Null THEN Null
                   ELSE CHOOSE i \in 1..Len(order) : order[i] = e
        m1 == [i \in NodeIds |->
                 IF i <= Len(order)
                 THEN QueueEntry(st.mem[order[i]].rev, st.mem[order[i]].value,
                                 name(st.mem[order[i]].prev),
                                 name(st.mem[order[i]].next))
                 ELSE FreeEntry]
    IN State2(m1, Queue(name(st.past.head), name(st.past.tail)),
                  Queue(name(st.future.head), name(st.future.tail)),
                  Queue(name(st.past2.head), name(st.past2.tail)),
                  Queue(name(st.future2.head), name(st.future2.tail)))

\* ----------------------------------------------------------------- Trique
\* TriqueEntry.__cinit__
TriqueEntry(value, prev, nxt) == [value |-> value, prev |-> prev, next |-> nxt]

\* storage that holds no TriqueEntry
FreeTriqueEntry == TriqueEntry("free", Null, Null)

\* object identities available to TriqueEntry objects
MaxTriqueNodes == 2 * MaxLen + 2
TriqueIds == 1..MaxTriqueNodes

\* the fields as Trique.__cinit__ assigns them before it calls extend
EmptyTrique ==
    [mem |-> [i \in TriqueIds |-> FreeTriqueEntry],
     head |-> Null, waist |-> Null, tail |-> Null, length |-> 0]

\* a Trique while a method runs on it; fresh is the identity the next
\* constructed TriqueEntry gets
Running(t) ==
    [mem |-> t.mem, head |-> t.head, waist |-> t.waist, tail |-> t.tail,
     length |-> t.length,
     fresh |-> 1 + Cardinality({i \in TriqueIds : t.mem[i] # FreeTriqueEntry})]

\* what a Trique method hands back: the Trique it leaves, how it ended
\* ("ok", "IndexError", or "UB" when it used a field of None, which the
\* compiled code does not check), the value and the entry it returned
TOk(t, v) == [t |-> t, kind |-> "ok", val |-> v, e |-> Null]
TEntry(t, e) == [t |-> t, kind |-> "ok", val |-> None, e |-> e]
TRaise(t, exc) == [t |-> t, kind |-> exc, val |-> None, e |-> Null]

\* the two loops of Trique.seekentry
RECURSIVE seekwalk(_, _)
seekwalk(t, n) ==
    IF n > 0
    THEN IF t.mem[t.waist].next = Null
         THEN TRaise(t, "IndexError")
         ELSE seekwalk([t EXCEPT !.waist = t.mem[t.waist].next], n - 1)
    ELSE IF n < 0
         THEN IF t.mem[t.waist].prev = Null
              THEN TRaise(t, "IndexError")
              ELSE seekwalk([t EXCEPT !.waist = t.mem[t.waist].prev], n + 1)
         ELSE TEntry(t, t.waist)

\* Trique.seekentry
seekentry(t, n) ==
    IF n = 0 THEN TEntry(t, t.waist)
    ELSE IF t.waist = Null
         THEN IF t.head = Null
              THEN TRaise(t, "IndexError")
              ELSE seekwalk([t EXCEPT !.waist = t.head], n)
         ELSE seekwalk(t, n)

\* Trique.seek
trique_seek(t, n) ==
    LET r == seekentry(t, n)
    IN IF r.kind # "ok" THEN r
       ELSE IF r.e = Null THEN TRaise(r.t, "UB")
       ELSE TOk(r.t, r.t.mem[r.e].value)

\* Trique.getentry
getentry(t, i) ==
    LET t1 == IF i >= 0 THEN [t EXCEPT !.waist = t.head]
                        ELSE [t EXCEPT !.waist = t.tail]
        i1 == IF i >= 0 THEN i ELSE i + 1
        r == trique_seek(t1, i1)
    IN IF r.kind # "ok" THEN r ELSE TEntry(r.t, r.t.waist)

\* Trique.__getitem__
trique_getitem(t, i) ==
    LET r == getentry(t, i)
    IN IF r.kind # "ok" THEN r
       ELSE IF r.e = Null THEN TRaise(r.t, "UB")
       ELSE TOk(r.t, r.t.mem[r.e].value)

\* Trique.appendentry
trique_appendentry(t, entry) ==
    IF t.head = Null
    THEN TOk([t EXCEPT !.mem[entry].next = Null, !.mem[entry].prev = Null,
                       !.head = entry, !.tail = entry], None)
    ELSE IF t.tail = Null
         THEN TRaise([t EXCEPT !.mem[entry].prev = Null,
                               !.mem[entry].next = Null], "UB")
         ELSE TOk([t EXCEPT !.mem[entry].prev = t.tail,
                            !.mem[entry].next = Null,
                            !.mem[t.tail].next = entry,
                            !.tail = entry,
                            !.length = t.length + 1], None)

\* Trique.append
trique_append(t, value) ==
    LET e == t.fresh
    IN trique_appendentry(
           [t EXCEPT !.mem[e] = TriqueEntry(value, Null, Null),
                     !.fresh = e + 1], e)

\* Trique.appendleftentry
trique_appendleftentry(t, entry) ==
    IF t.head = Null
    THEN TOk([t EXCEPT !.mem[entry].next = Null, !.mem[entry].prev = Null,
                       !.head = entry, !.tail = entry], None)
    ELSE TOk([t EXCEPT !.mem[entry].next = t.head,
                       !.mem[entry].prev = Null,
                       !.mem[t.head].prev = entry,
                       !.head = entry,
                       !.length = t.length + 1], None)

\* Trique.appendleft
trique_appendleft(t, value) ==
    LET e == t.fresh
    IN trique_appendleftentry(
           [t EXCEPT !.mem[e] = TriqueEntry(value, Null, Null),
                     !.fresh = e + 1], e)

\* a or b on two entry references
OrElse(a, b) == IF a # Null THEN a ELSE b

\* Trique.poprightentry
poprightentry(t) ==
    IF t.tail = Null THEN TRaise(t, "UB")
    ELSE LET retentry == t.tail
             t1 == IF t.mem[retentry].prev = Null
                   THEN [t EXCEPT !.head = Null, !.tail = Null]
                   ELSE [t EXCEPT !.tail = t.mem[retentry].prev]
             t2 == IF retentry = t1.waist
                   THEN [t1 EXCEPT !.waist = OrElse(t1.mem[retentry].prev,
                                                    t1.mem[retentry].next)]
                   ELSE t1
         IN TEntry([t2 EXCEPT !.length = t2.length - 1], retentry)

\* Trique.popleftentry
popleftentry(t) ==
    IF t.head = Null THEN TRaise(t, "UB")
    ELSE LET retentry == t.head
             t1 == IF t.mem[retentry].next = Null
                   THEN [t EXCEPT !.head = Null, !.tail = Null]
                   ELSE [t EXCEPT !.head = t.mem[retentry].next]
             t2 == IF retentry = t1.waist
                   THEN [t1 EXCEPT !.waist = OrElse(t1.mem[retentry].next,
                                                    t1.mem[retentry].prev)]
                   ELSE t1
         IN TEntry([t2 EXCEPT !.length = t2.length - 1], retentry)

\* the unlinking at the end of Trique.popentry, the cursor on the entry
unlinkentry(t, i) ==
    LET retentry == t.waist
        prev == t.mem[retentry].prev
        nxt == t.mem[retentry].next
    IN IF prev = Null THEN TRaise(t, "UB")
       ELSE IF nxt = Null
            THEN TRaise([t EXCEPT !.mem[prev].next = nxt], "UB")
            ELSE TEntry([t EXCEPT !.mem[prev].next = nxt,
                                  !.mem[nxt].prev = prev,
                                  !.waist = IF i < 0 THEN prev ELSE nxt,
                                  !.length = t.length - 1], retentry)

\* Trique.popentry
popentry(t, i) ==
    IF i = 0 THEN popleftentry(t)
    ELSE IF i = -1 THEN poprightentry(t)
    ELSE LET r == IF i > 0
                  THEN trique_seek([t EXCEPT !.waist = t.head], i)
                  ELSE trique_seek([t EXCEPT !.waist = t.tail], i + 1)
         IN IF r.kind # "ok" THEN r ELSE unlinkentry(r.t, i)

\* the value of the entry a method returned
ValueOf(r) == IF r.kind # "ok" THEN r ELSE TOk(r.t, r.t.mem[r.e].value)

\* Trique.pop
trique_pop(t, i) == ValueOf(popentry(t, i))

\* Trique.popleft
trique_popleft(t) == ValueOf(popleftentry(t))

\* Trique.popmiddleentry
popmiddleentry(t, n) ==
    LET r == IF n # 0 THEN trique_seek(t, n) ELSE TOk(t, None)
    IN IF r.kind # "ok" THEN r
       ELSE LET t1 == r.t
                retentry == t1.waist
            IN IF retentry = Null THEN TRaise(t1, "UB")
               ELSE LET prev == t1.mem[retentry].prev
                        nxt == t1.mem[retentry].next
                    IN IF prev = Null THEN TRaise(t1, "UB")
                       ELSE IF nxt = Null
                            THEN TRaise([t1 EXCEPT !.mem[prev].next = nxt],
                                        "UB")
                            ELSE TEntry([t1 EXCEPT !.mem[prev].next = nxt,
                                                   !.mem[nxt].prev = prev,
                                                   !.length = t1.length - 1],
                                        retentry)

\* Trique.popmiddle
popmiddle(t, n) == ValueOf(popmiddleentry(t, n))

\* Trique.insertmiddle
insertmiddle(t, v) ==
    IF t.waist = Null THEN TRaise(t, "UB")
    ELSE LET newentry == t.fresh
             nxt == t.mem[t.waist].next
             t1 == [t EXCEPT !.mem[newentry] = TriqueEntry(v, t.waist, nxt),
                             !.fresh = newentry + 1]
         IN IF nxt = Null THEN TRaise(t1, "UB")
            ELSE TOk([t1 EXCEPT !.mem[nxt].prev = newentry,
                                !.mem[t.waist].next = newentry,
                                !.waist = newentry], None)

\* Trique.insert
insert(t, i, v) ==
    LET r == trique_seek(t, i)
    IN IF r.kind # "ok" THEN r ELSE insertmiddle(r.t, v)

\* a local variable of a method that has not been assigned: extend declares
\* nxt and prev and reads nxt before anything is assigned to it.  A build
\* that starts such variables as None reads None, a build that tracks
\* assignment raises UnboundLocalError
Unbound == -1

\* the loop of Trique.extend over the objects of the iterable
RECURSIVE extendLoop(_, _, _, _)
extendLoop(t, objs, nxt, prev) ==
    IF objs = <<>>
    THEN [t |-> t, kind |-> "ok", nxt |-> nxt, prev |-> prev]
    ELSE IF nxt = Unbound
    THEN [t |-> t, kind |-> "UnboundLocalError", nxt |-> nxt, prev |-> prev]
    ELSE LET e == t.fresh
         IN IF nxt = Null
            THEN LET t1 == [t EXCEPT !.mem[e] =
                                         TriqueEntry(objs[1], t.tail, Null),
                                     !.fresh = e + 1]
                     t2 == IF t1.head = Null
                           THEN [t1 EXCEPT !.head = e, !.tail = e]
                           ELSE t1
                 IN extendLoop(t2, Tail(objs), nxt, e)
            ELSE LET t1 == [t EXCEPT !.mem[e] =
                                         TriqueEntry(objs[1], prev, Null),
                                     !.mem[prev].next = e,
                                     !.fresh = e + 1]
                 IN extendLoop(t1, Tail(objs), e, prev)

\* Trique.extend; unset is what a local variable holds before it is assigned
extend(t, iterable, unset) ==
    LET r == extendLoop(t, iterable, unset, unset)
    IN IF r.kind # "ok" THEN TRaise(r.t, r.kind)
       ELSE IF r.nxt = Unbound THEN TRaise(r.t, "UnboundLocalError")
       ELSE IF r.nxt = Null THEN TOk(r.t, None)
       ELSE IF r.prev = Null THEN TRaise(r.t, "UB")
       ELSE TOk([r.t EXCEPT !.tail = r.nxt], None)

\* Trique.__cinit__ with no data: the fields are assigned, then extend([])
\* runs; where an unassigned local reads as None it returns and the Trique
\* is empty, where the read is tracked it raises UnboundLocalError and the
\* constructor fails with it
cinit(unset) == extend(Running(EmptyTrique), <<>>, unset)

\* the last branch of Trique.__setitem__ and of Trique.__delitem__: put the
\* cursor on the entry at index i
seekindex(t, i) ==
    IF i > 0
    THEN trique_seek([t EXCEPT !.waist = t.head], i)
    ELSE trique_seek([t EXCEPT !.waist = t.tail], i + 1)

\* Trique.__setitem__
trique_setitem(t, i, v) ==
    IF i = t.length THEN trique_append(t, v)
    ELSE IF i > t.length THEN TRaise(t, "IndexError")
    ELSE IF i = 0
         THEN IF t.length = 0 THEN trique_append(t, v)
              ELSE IF t.head = Null THEN TRaise(t, "UB")
              ELSE TOk([t EXCEPT !.mem[t.head].value = v], None)
    ELSE IF i = -1 \/ i = t.length - 1
         THEN IF t.length = 0 THEN trique_append(t, v)
              ELSE IF t.tail = Null THEN TRaise(t, "UB")
              ELSE TOk([t EXCEPT !.mem[t.tail].value = v], None)
    ELSE LET r == seekindex(t, i)
         IN IF r.kind # "ok" THEN r
            ELSE TOk([r.t EXCEPT !.mem[r.t.waist].value = v], None)

\* Trique.__delitem__
trique_delitem(t, i) ==
    IF i = 0
    THEN IF t.head = Null THEN TRaise(t, "UB")
         ELSE LET h == t.mem[t.head].next
              IN IF h = Null THEN TRaise([t EXCEPT !.head = h], "UB")
                 ELSE TOk([t EXCEPT !.head = h, !.mem[h].prev = Null], None)
    ELSE IF i = -1 \/ i = t.length - 1
         THEN IF t.tail = Null THEN TRaise(t, "UB")
              ELSE LET l == t.mem[t.tail].prev
                   IN IF l = Null THEN TRaise([t EXCEPT !.tail = l], "UB")
                      ELSE TOk([t EXCEPT !.tail = l, !.mem[l].next = Null],
                               None)
    ELSE IF i >= t.length THEN TRaise(t, "IndexError")
    ELSE LET r == seekindex(t, i)
         IN IF r.kind # "ok" THEN r
            ELSE LET t1 == r.t
                     w == t1.waist
                     prev == t1.mem[w].prev
                     nxt == t1.mem[w].next
                 IN IF prev = Null THEN TRaise(t1, "UB")
                    ELSE IF nxt = Null
                         THEN TRaise([t1 EXCEPT !.mem[prev].next = nxt], "UB")
                         ELSE TOk([t1 EXCEPT !.mem[prev].next = nxt,
                                             !.mem[nxt].prev = prev,
                                             !.waist = prev], None)

\* Trique.__iter__: the entries from head along next
TriqueIter(t) == IterFrom(t.mem, t.head, MaxTriqueNodes + 1)

\* the entries some reference of the Trique leads to
TriqueReach(t) == Closure(t.mem, {t.head, t.waist, t.tail} \ {Null})

\* the same Trique with its entries named in the order head..tail first
NormalizeTrique(t) ==
    LET c1 == ChainFrom(t.mem, t.head, {})
        c2 == SortedSeq(TriqueReach(t) \ Range(c1))
        order == c1 \o c2
        name(e) == IF e = Null THEN Null
                   ELSE CHOOSE i \in 1..Len(order) : order[i] = e
    IN [mem |-> [i \in TriqueIds |->
                   IF i <= Len(order)
                   THEN TriqueEntry(t.mem[order[i]].value,
                                    name(t.mem[order[i]].prev),
                                    name(t.mem[order[i]].next))
                   ELSE FreeTriqueEntry],
        head |-> name(t.head), waist |-> name(t.waist),
        tail |-> name(t.tail), length |-> t.length]

\* ---------------------------------------------------------------- actions
St == State(mem, past, future)

\* the batches handed to update: up to MaxBatch (revision, value) pairs in
\* any order of revisions; the pairs carry "a", "b", "a", ... in turn, so
\* that the order in which they are applied shows in the map
BatchValue(i) == IF i % 2 = 1 THEN "a" ELSE "b"
Batches ==
    UNION {{[i \in 1..n |-> <<rs[i], BatchValue(i)>>] : rs \in [1..n -> Revs]}
           : n \in 1..MaxBatch}

\* the call o(a, v, b) returned r: its object graph becomes the state
Done(r, o, a, v, b) ==
    LET n == Normalize(r.st)
    IN /\ mem' = n.mem
       /\ past' = n.past
       /\ future' = n.future
       /\ op' = o
       /\ arg' = a
       /\ val' = v
       /\ batch' = b
       /\ ret' = [kind |-> r.kind, val |-> r.val, rev |-> r.rev]

\* the map holds no more entries than there are revisions, so that the
\* allocator has room for the entries a call constructs
Room == St.fresh <= MaxRev + 3

\* WindowDict(): both queues empty; Trique(): the outcome of __cinit__ in
\* either build, ret holding it. After UnboundLocalError there is no Trique
\* to call (Alive)
Init ==
    /\ mem = [i \in NodeIds |-> FreeEntry]
    /\ past = Queue(Null, Null)
    /\ future = Queue(Null, Null)
    /\ op = "init"
    /\ arg = 0
    /\ val = None
    /\ batch = <<>>
    /\ lastSet = 0
    /\ past2 = Queue(Null, Null)
    /\ future2 = Queue(Null, Null)
    /\ \E unset \in {Null, Unbound} :
           /\ trique = NormalizeTrique(cinit(unset).t)
           /\ ret = [kind |-> cinit(unset).kind, val |-> None, rev |-> 0]
    /\ ref = <<>>

\* d.seek(rev)
Seek ==
    \E rev \in Revs :
        /\ Done(Ok(seek(St, rev)), "seek", rev, None, <<>>)
        /\ UNCHANGED <<lastSet, elsewhere>>

\* d[rev]
GetItem ==
    \E rev \in Revs :
        /\ Done(getitem(St, rev), "getitem", rev, None, <<>>)
        /\ UNCHANGED <<lastSet, elsewhere>>

\* d.rev_before(rev)
RevBefore ==
    \E rev \in Revs :
        /\ Done(rev_before(St, rev), "rev_before", rev, None, <<>>)
        /\ UNCHANGED <<lastSet, elsewhere>>

\* d.rev_after(rev)
RevAfter ==
    \E rev \in Revs :
        /\ Done(rev_after(St, rev), "rev_after", rev, None, <<>>)
        /\ UNCHANGED <<lastSet, elsewhere>>

\* d[rev] = v
SetItem ==
    \E rev \in Revs, v \in Values :
        /\ Room
        /\ Done(setitem(St, rev, v), "setitem", rev, v, <<>>)
        /\ UNCHANGED <<lastSet, elsewhere>>

\* del d[rev]
DelItem ==
    \E rev \in Revs :
        /\ Room
        /\ Done(Ok(delitem(St, rev)), "delitem", rev, None, <<>>)
        /\ UNCHANGED <<lastSet, elsewhere>>

\* d.setdefault(rev, default), the default None when it is left out
SetDefault ==
    \E rev \in Revs, default \in Values \cup {None} :
        /\ Room
        /\ Done(setdefault(St, rev, default), "setdefault", rev, default, <<>>)
        /\ UNCHANGED <<lastSet, elsewhere>>

\* d.pop(rev)
Pop ==
    \E rev \in Revs :
        /\ Room
        /\ Done(dict_pop(St, rev), "pop", rev, None, <<>>)
        /\ UNCHANGED <<lastSet, elsewhere>>

\* d.popitem(rev)
PopItem ==
    \E rev \in Revs :
        /\ Room
        /\ Done(popitem(St, rev), "popitem", rev, None, <<>>)
        /\ UNCHANGED <<lastSet, elsewhere>>

\* d.update(E)
Update ==
    \E E \in Batches :
        /\ Room
        /\ Done(update(St, E), "update", 0, None, E)
        /\ UNCHANGED <<lastSet, elsewhere>>

\* d.clear()
Clear ==
    /\ Done(Ok(clear(St)), "clear", 0, None, <<>>)
    /\ UNCHANGED <<lastSet, elsewhere>>

Next ==
    \/ Seek
    \/ GetItem
    \/ RevBefore
    \/ RevAfter
    \/ SetItem
    \/ DelItem
    \/ SetDefault
    \/ Pop
    \/ PopItem
    \/ Update
    \/ Clear

Spec == Init /\ [][Next]_vars

\* d[rev] = v by a caller that never sets a revision below one it set before
SetItemMono ==
    \E rev \in Revs, v \in Values :
        /\ rev >= lastSet
        /\ Room
        /\ Done(setitem(St, rev, v), "setitem", rev, v, <<>>)
        /\ lastSet' = rev
        /\ UNCHANGED elsewhere

NextMono ==
    \/ SetItemMono
    \/ Seek
    \/ GetItem
    \/ RevBefore
    \/ RevAfter

SpecMono == Init /\ [][NextMono]_vars

\* ------------------------------------------- the queues popped directly
QueueNames == {"past", "future"}
PopIndices == (0 - (MaxPop + 1))..MaxPop

\* d._past.popleft(i), d._future.popleft(i)
QueuePopLeft ==
    \E q \in QueueNames, i \in PopIndices :
        /\ Done(popleft(St, q, i), q \o ".popleft", i, None, <<>>)
        /\ UNCHANGED <<lastSet, elsewhere>>

\* d._past.pop(i), d._future.pop(i)
QueuePop ==
    \E q \in QueueNames, i \in PopIndices :
        /\ Done(pop(St, q, i), q \o ".pop", i, None, <<>>)
        /\ UNCHANGED <<lastSet, elsewhere>>

\* d._past[i] = (rev, v), d._future[i] = (rev, v), on a map of up to
\* MaxPop entries
QueueSetItem ==
    \E q \in QueueNames, i \in PopIndices, rev \in Revs, v \in Values :
        /\ QueueLen(mem, past) + QueueLen(mem, future) <= MaxPop
        /\ Done(queue_setitem(St, q, i, rev, v), q \o ".setitem", i, v, <<>>)
        /\ UNCHANGED <<lastSet, elsewhere>>

NextQueue ==
    \/ Seek
    \/ SetItem
    \/ QueuePopLeft
    \/ QueuePop

SpecQueue == Init /\ [][NextQueue]_vars

\* the queues assigned to directly, between calls on the map
NextQueueSet ==
    \/ QueueSetItem
    \/ Seek
    \/ SetItem

SpecQueueSet == Init /\ [][NextQueueSet]_vars

\* ------------------------------------------- two maps and their comparison
St2 == State2(mem, past, future, past2, future2)
CmpRevs == 0..MaxCmpRev

\* the two maps: 0 for a, 1 for b
Roles == {0, 1}

\* the last call returned or raised; after a comparison that goes round its
\* copying loop for ever no further call is made
Returned == ret.kind # "NoReturn"

\* the call o(a, v) on one of the two maps returned r
Done2(r, o, a, v) ==
    LET n == Normalize2(r.st)
    IN /\ mem' = n.mem
       /\ past' = n.past
       /\ future' = n.future
       /\ past2' = n.past2
       /\ future2' = n.future2
       /\ op' = o
       /\ arg' = a
       /\ val' = v
       /\ ret' = [kind |-> r.kind, val |-> r.val, rev |-> r.rev]
       /\ UNCHANGED <<batch, lastSet, trique, ref>>

\* a[rev] = v
CmpSetSelf ==
    \E rev \in CmpRevs, v \in Values :
        /\ Returned
        /\ Done2(setitem(St2, rev, v), "setitem", rev, v)

\* b[rev] = v
CmpSetOther ==
    \E rev \in CmpRevs, v \in Values :
        /\ Returned
        /\ Done2(OnOther(setitem(Swap(St2), rev, v)), "setitem2", rev, v)

\* a.seek(rev)
CmpSeekSelf ==
    \E rev \in CmpRevs :
        /\ Returned
        /\ Done2(Ok(seek(St2, rev)), "seek", rev, None)

\* b.seek(rev)
CmpSeekOther ==
    \E rev \in CmpRevs :
        /\ Returned
        /\ Done2(Ok(Swap(seek(Swap(St2), rev))), "seek2", rev, None)

\* self.__richcmp__(other, cop) with a as self (role 0) or b as self (role 1)
Compare(role, cop) ==
    IF role = 0 THEN richcmp(St2, cop) ELSE OnOther(richcmp(Swap(St2), cop))

\* a == b, b == a
CmpEq ==
    \E role \in Roles :
        /\ Returned
        /\ Done2(Compare(role, 2), "eq", role, None)

\* a != b, b != a
CmpNe ==
    \E role \in Roles :
        /\ Returned
        /\ Done2(Compare(role, 3), "ne", role, None)

NextCmp ==
    \/ CmpSetSelf
    \/ CmpSetOther
    \/ CmpSeekSelf
    \/ CmpSeekOther
    \/ CmpEq
    \/ CmpNe

SpecCmp == Init /\ [][NextCmp]_vars

\* ------------------------------------------------------------- the Trique
TSt == Running(trique)
Indices == (0 - (MaxLen + 1))..(MaxLen + 1)

\* using a field of None is not checked by the compiled code: the build
\* with none checks raises AttributeError, the default build reads past the
\* None object and the process dies
Outcomes(kind) ==
    IF kind = "UB" THEN {"AttributeError", "SegFault"} ELSE {kind}

\* what a run does after it used a field of None or read an unassigned
\* variable is not defined by the source: the run is followed up to there
Alive == ret.kind \notin {"AttributeError", "SegFault", "UnboundLocalError"}

\* the Trique has room for one more entry and its counter for one more step
TriqueRoom ==
    /\ Cardinality(TriqueReach(trique)) <= MaxLen
    /\ trique.length <= MaxLen
    /\ Len(ref) <= MaxLen
Poppable == trique.length > 0 - MaxLen

\* the call o(a, v) on the Trique ended as r
TDone(r, o, a, v) ==
    /\ trique' = NormalizeTrique(r.t)
    /\ op' = o
    /\ arg' = a
    /\ val' = v
    /\ \E k \in Outcomes(r.kind) : ret' = [kind |-> k, val |-> r.val, rev |-> 0]
    /\ batch' = <<>>
    /\ UNCHANGED <<mem, past, future, lastSet, past2, future2>>

\* t.append(v)
TAppend ==
    \E v \in Values :
        /\ Alive /\ TriqueRoom
        /\ TDone(trique_append(TSt, v), "Trique.append", 0, v)
        /\ UNCHANGED ref

\* t.appendleft(v)
TAppendLeft ==
    \E v \in Values :
        /\ Alive /\ TriqueRoom
        /\ TDone(trique_appendleft(TSt, v), "Trique.appendleft", 0, v)
        /\ UNCHANGED ref

\* t.pop(i)
TPop ==
    \E i \in Indices :
        /\ Alive /\ Poppable
        /\ TDone(trique_pop(TSt, i), "Trique.pop", i, None)
        /\ UNCHANGED ref

\* t.popleft()
TPopLeft ==
    /\ Alive /\ Poppable
    /\ TDone(trique_popleft(TSt), "Trique.popleft", 0, None)
    /\ UNCHANGED ref

\* t.popmiddle(n)
TPopMiddle ==
    \E n \in Indices :
        /\ Alive /\ Poppable
        /\ TDone(popmiddle(TSt, n), "Trique.popmiddle", n, None)
        /\ UNCHANGED ref

\* t.insertmiddle(v)
TInsertMiddle ==
    \E v \in Values :
        /\ Alive /\ TriqueRoom
        /\ TDone(insertmiddle(TSt, v), "Trique.insertmiddle", 0, v)
        /\ UNCHANGED ref

\* t.seek(n)
TSeek ==
    \E n \in Indices :
        /\ Alive
        /\ TDone(trique_seek(TSt, n), "Trique.seek", n, None)
        /\ UNCHANGED ref

\* t[i]
TGetItem ==
    \E i \in Indices :
        /\ Alive
        /\ TDone(trique_getitem(TSt, i), "Trique.getitem", i, None)
        /\ UNCHANGED ref

\* t[i] = v
TSetItem ==
    \E i \in Indices, v \in Values :
        /\ Alive /\ TriqueRoom
        /\ TDone(trique_setitem(TSt, i, v), "Trique.setitem", i, v)
        /\ UNCHANGED ref

\* del t[i]
TDelItem ==
    \E i \in Indices :
        /\ Alive
        /\ TDone(trique_delitem(TSt, i), "Trique.delitem", i, None)
        /\ UNCHANGED ref

\* t.insert(i, v)
TInsert ==
    \E i \in Indices, v \in Values :
        /\ Alive /\ TriqueRoom
        /\ TDone(insert(TSt, i, v), "Trique.insert", i, v)
        /\ UNCHANGED ref

\* the lists handed to extend
Iterables == UNION {[1..n -> Values] : n \in 0..MaxLen}

\* t.extend(iterable); on the Trique just constructed this is what
\* Trique(iterable) does. A Trique exists only where the constructor's own
\* extend returned, that is where an unassigned local reads as None
TExtend ==
    \E iterable \in Iterables :
        /\ Alive /\ TriqueRoom
        /\ LET r == extend(TSt, iterable, Null)
           IN /\ trique' = NormalizeTrique(r.t)
              /\ ret' = [kind |-> r.kind, val |-> r.val, rev |-> 0]
        /\ op' = "Trique.extend"
        /\ arg' = 0
        /\ val' = None
        /\ batch' = iterable
        /\ UNCHANGED <<mem, past, future, lastSet, past2, future2, ref>>

NextTrique ==
    \/ TAppend
    \/ TAppendLeft
    \/ TExtend
    \/ TPop
    \/ TPopLeft
    \/ TPopMiddle
    \/ TInsertMiddle
    \/ TInsert
    \/ TSeek
    \/ TGetItem
    \/ TSetItem
    \/ TDelItem

SpecTrique == Init /\ [][NextTrique]_vars

\* ---------------------------- the Trique beside a list, used at its ends
\* l.pop() and l.pop(0) on the list: IndexError leaves an empty list empty
ListPop(l) == IF l = <<>> THEN l ELSE SubSeq(l, 1, Len(l) - 1)
ListPopLeft(l) == IF l = <<>> THEN l ELSE Tail(l)

\* t.append(v); l.append(v)
EndsAppend ==
    \E v \in Values :
        /\ Alive /\ TriqueRoom
        /\ TDone(trique_append(TSt, v), "Trique.append", 0, v)
        /\ ref' = Append(ref, v)

\* t.appendleft(v); l.insert(0, v)
EndsAppendLeft ==
    \E v \in Values :
        /\ Alive /\ TriqueRoom
        /\ TDone(trique_appendleft(TSt, v), "Trique.appendleft", 0, v)
        /\ ref' = <<v>> \o ref

\* t.pop(); l.pop()
EndsPop ==
    /\ Alive /\ Poppable
    /\ TDone(trique_pop(TSt, -1), "Trique.pop", -1, None)
    /\ ref' = ListPop(ref)

\* t.popleft(); l.pop(0)
EndsPopLeft ==
    /\ Alive /\ Poppable
    /\ TDone(trique_popleft(TSt), "Trique.popleft", 0, None)
    /\ ref' = ListPopLeft(ref)

NextTriqueEnds ==
    \/ EndsAppend
    \/ EndsAppendLeft
    \/ EndsPop
    \/ EndsPopLeft
    \/ TSeek
    \/ TGetItem

SpecTriqueEnds == Init /\ [][NextTriqueEnds]_vars

TypeOK ==
    /\ mem \in [NodeIds -> [rev : Revs \cup {-1}, value : Values \cup {None},
                            prev : NodeIds \cup {Null},
                            next : NodeIds \cup {Null}]]
    /\ past \in [head : NodeIds \cup {Null}, tail : NodeIds \cup {Null}]
    /\ future \in [head : NodeIds \cup {Null}, tail : NodeIds \cup {Null}]

\* ------------------------------------------------------------ properties
\* the recorded history: what iterating d.items() yields
Hist == items(mem, past, future)
HistOf(st) == items(st.mem, st.past, st.future)
RevsOf(h) == [i \in 1..Len(h) |-> h[i][1]]
PastRevs == RevsOf(Pairs(mem, QueueIter(mem, past)))
FutureRevs == RevsOf(Pairs(mem, QueueIter(mem, future)))
StrictlyAscending(rs) == \A i, j \in 1..Len(rs) : i < j => rs[i] < rs[j]

\* the state after the step
StNext == State(mem', past', future')

\* outcome of a call without the object graph it leaves
Outcome(r) == [kind |-> r.kind, val |-> r.val, rev |-> r.rev]

\* positions of the history h recorded at or before rev
AtOrBefore(h, rev) == {i \in 1..Len(h) : h[i][1] <= rev}
\* the position among ps whose revision is greatest
Latest(h, ps) == CHOOSE i \in ps : \A j \in ps : h[j][1] <= h[i][1]

\* what a lookup of rev has to hand back, given the history h
Effective(h, rev) ==
    IF AtOrBefore(h, rev) = {}
    THEN [kind |-> "KeyError", val |-> None, rev |-> 0]
    ELSE [kind |-> "ok", val |-> h[Latest(h, AtOrBefore(h, rev))][2],
          rev |-> 0]

\* C1: in every state, for every revision rev, d[rev] is the value of the
\* recorded entry with the greatest revision <= rev and raises KeyError when
\* there is none; a lookup that was made returned exactly that, whatever
\* seeks and lookups came before it.
C1_ReadConsistency ==
    /\ \A rev \in Revs : Outcome(getitem(St, rev)) = Effective(Hist, rev)
    /\ op = "getitem" => ret = Effective(Hist, arg)

\* a lookup between two recorded revisions returned the earlier one's value
C1_Witness ==
    /\ op = "getitem"
    /\ ret.kind = "ok"
    /\ \E i, j \in 1..Len(Hist) : Hist[i][1] < arg /\ arg < Hist[j][1]

\* C2: right after seek(rev) every entry of _past has a revision <= rev and
\* every entry of _future has a revision > rev.
C2_WindowCorrect ==
    op = "seek" =>
        /\ \A i \in 1..Len(PastRevs) : PastRevs[i] <= arg
        /\ \A i \in 1..Len(FutureRevs) : FutureRevs[i] > arg

\* a seek left entries on both sides, the sought revision being recorded
C2_Witness ==
    /\ op = "seek"
    /\ Len(PastRevs) >= 2
    /\ Len(FutureRevs) >= 1
    /\ PastRevs[Len(PastRevs)] = arg

\* C3: seek only moves the split: _past followed by _future is the same
\* sequence of (revision, value) pairs before and after any seek.
C3_SeekKeepsHistory ==
    [][op' = "seek" => HistOf(StNext) = Hist]_vars

\* a seek to a revision below two recorded ones (entries were relocated)
C3_Witness ==
    /\ op = "seek"
    /\ Len(PastRevs) >= 1
    /\ Len(FutureRevs) >= 2

\* C4: when __setitem__ is only called with non-decreasing revisions, with
\* seeks, lookups, rev_before and rev_after in between, the revisions that
\* items() yields are strictly ascending (no revision twice).
C4_Ordering == StrictlyAscending(RevsOf(Hist))

\* three revisions recorded, and a seek has split them
C4_Witness ==
    /\ Len(Hist) >= 3
    /\ Len(PastRevs) >= 1
    /\ Len(FutureRevs) >= 1
    /\ lastSet >= 2

\* C5: after del d[rev], in any state of the map (the empty one and one
\* whose revisions are all below rev included), the lookup of rev and of
\* every later revision hands back None.
C5_TruncatedAbsent ==
    op = "delitem" =>
        \A r \in Revs : r >= arg => get(St, r, None).val = None

\* C6: del d[rev] leaves the lookups of every revision below rev as they
\* were: the same value, or KeyError as before.
C6_TruncateKeepsEarlier ==
    [][op' = "delitem" =>
          \A r \in Revs :
              r < arg' => Outcome(getitem(StNext, r)) = Outcome(getitem(St, r))
      ]_vars

\* a truncation put its marker behind two earlier entries
C6_Witness ==
    /\ op = "delitem"
    /\ Len(Hist) >= 3
    /\ Hist[Len(Hist)] = <<arg, None>>

\* positions of the history h whose revision is rev
At(h, rev) == {i \in 1..Len(h) : h[i][1] = rev}
\* the history h without its position i
Without(h, i) ==
    [j \in 1..(Len(h) - 1) |-> IF j < i THEN h[j] ELSE h[j + 1]]

\* C7: d[rev] = v records exactly one entry for rev.  A recorded rev has
\* its value overwritten, the number of entries staying the same; otherwise
\* exactly one entry (rev, v) is added, also to the empty map.  Every other
\* entry keeps its revision and value, and d[rev] is v afterwards.
C7_SetRecordsOne ==
    [][op' = "setitem" =>
          LET h == Hist
              h2 == HistOf(StNext)
          IN /\ ret'.kind = "ok"
             /\ Cardinality(At(h2, arg')) = 1
             /\ h2[CHOOSE i \in At(h2, arg') : TRUE] = <<arg', val'>>
             /\ IF At(h, arg') # {}
                THEN /\ Len(h2) = Len(h)
                     /\ \A i \in 1..Len(h) : h[i][1] # arg' => h2[i] = h[i]
                ELSE /\ Len(h2) = Len(h) + 1
                     /\ Without(h2, CHOOSE i \in At(h2, arg') : TRUE) = h
             /\ Outcome(getitem(StNext, arg')) =
                    [kind |-> "ok", val |-> val', rev |-> 0]
      ]_vars

\* a set wrote the middle one of three entries while later ones exist
C7_Witness ==
    /\ op = "setitem"
    /\ Len(Hist) >= 3
    /\ Hist[2] = <<arg, val>>

\* the batch E names a revision below one recorded before that pair is set
OutOfOrder(h, E) ==
    \E i \in 1..Len(E) :
        \/ \E j \in 1..Len(h) : E[i][1] < h[j][1]
        \/ \E j \in 1..(i - 1) : E[i][1] < E[j][1]

\* the history that setting (rev, v) makes of the ascending history h
RECURSIVE Recorded(_, _, _)
Recorded(h, rev, v) ==
    IF h = <<>> THEN <<<<rev, v>>>>
    ELSE IF h[1][1] = rev THEN <<<<rev, v>>>> \o Tail(h)
    ELSE IF h[1][1] > rev THEN <<<<rev, v>>>> \o h
    ELSE <<h[1]>> \o Recorded(Tail(h), rev, v)

\* the history that setting the pairs of E, first to last, makes of h
RECURSIVE RecordedAll(_, _)
RecordedAll(h, E) ==
    IF E = <<>> THEN h
    ELSE RecordedAll(Recorded(h, E[1][1], E[1][2]), Tail(E))

\* C8 as stated: update sets the pairs in the order supplied, and a batch
\* that supplies a revision below one already recorded fails with the
\* AssertionError of __setitem__ instead of recording the entry.
C8_OutOfOrderFails ==
    [][(op' = "update" /\ OutOfOrder(Hist, batch')) =>
          ret'.kind = "AssertionError"]_vars

\* C8 amended: update sets the pairs in the order supplied, without sorting
\* them, and never fails: a pair whose revision is below a recorded one is
\* recorded at its place in the ascending history, and of two pairs with
\* the same revision the later one stays.
C8_UpdateInOrder ==
    [][op' = "update" =>
          /\ ret'.kind = "ok"
          /\ HistOf(StNext) = RecordedAll(Hist, batch')]_vars

\* an update whose batch went down in revision, below a recorded one
C8_Witness ==
    /\ op = "update"
    /\ Len(batch) = 2
    /\ batch[2][1] < batch[1][1]
    /\ Len(Hist) >= 3
    /\ \E i \in 1..Len(Hist) : Hist[i] = batch[2] /\ i < Len(Hist)

\* C9: rev_before(rev) is the last recorded revision strictly below rev:
\* with the revisions 1, 2 and 3 recorded, rev_before(3) is 2.
C9_RevBeforeStrict ==
    (op = "rev_before" /\ arg = 3 /\ RevsOf(Hist) = <<1, 2, 3>>) =>
        (ret.kind = "ok" /\ ret.rev = 2)

\* what rev_before(rev) has to hand back, given the history h
EffectiveRev(h, rev) ==
    IF AtOrBefore(h, rev) = {}
    THEN [kind |-> "KeyError", val |-> None, rev |-> 0]
    ELSE [kind |-> "ok", val |-> None,
          rev |-> h[Latest(h, AtOrBefore(h, rev))][1]]

\* C10: rev_before(rev) is the revision of the entry a lookup of rev reads,
\* the greatest recorded revision <= rev (rev itself when it is recorded),
\* and it raises KeyError exactly when no recorded revision is <= rev.
C10_RevBeforeIsRead ==
    /\ \A rev \in Revs :
           /\ Outcome(rev_before(St, rev)) = EffectiveRev(Hist, rev)
           /\ (rev_before(St, rev).kind = "KeyError")
                  <=> (getitem(St, rev).kind = "KeyError")
    /\ op = "rev_before" => ret = EffectiveRev(Hist, arg)

\* rev_before of a recorded revision handed back that revision
C10_Witness ==
    /\ op = "rev_before"
    /\ ret.kind = "ok"
    /\ ret.rev = arg
    /\ Len(PastRevs) >= 2

\* positions of the history h recorded after rev
After(h, rev) == {i \in 1..Len(h) : h[i][1] > rev}
\* the position among ps whose revision is lowest
Earliest(h, ps) == CHOOSE i \in ps : \A j \in ps : h[i][1] <= h[j][1]

\* C11: rev_after(rev) is the smallest recorded revision above rev, and
\* when there is none it hands back a "no later change" marker (None) that
\* is no revision number, revision 0 included.
C11_RevAfterSentinel ==
    op = "rev_after" =>
        /\ ret.kind = "ok"
        /\ IF After(Hist, arg) = {}
           THEN ret.rev \notin Int
           ELSE ret.rev = Hist[Earliest(Hist, After(Hist, arg))][1]

\* C13: r in d follows the effective value: a revision is in the map when
\* the latest entry at or before it holds a value other than None, and it
\* is not in the map before the first entry and from a None entry on.
C13_MembershipEffective ==
    \A r \in Revs :
        contains(St, r) <=>
            (Effective(Hist, r).kind = "ok" /\ Effective(Hist, r).val # None)

\* the lowest recorded revision
LowestRev(h) == h[Earliest(h, 1..Len(h))][1]

\* C14: (rev, value) in d.items() is true exactly when iterating items()
\* yields an entry with that revision and an equal value, and it is false
\* for every rev below the lowest recorded revision.
C14_ItemsContainment ==
    \A r \in Revs, v \in Values \cup {None} :
        /\ ItemsContains(St, <<r, v>>) <=>
               (\E i \in 1..Len(Hist) : Hist[i] = <<r, v>>)
        /\ (Hist # <<>> /\ r < LowestRev(Hist)) => ~ItemsContains(St, <<r, v>>)

\* the recorded history of the second map
Hist2 == items(mem, past2, future2)

\* C12: a == b is True and a != b is False when the two maps have the same
\* sequence of (revision, value) pairs, _past followed by _future, whatever
\* was sought on each before; == is False and != True when they differ.
C12_EqualByHistory ==
    [][/\ op' = "eq" => (ret'.val = "True" <=> Hist = Hist2)
       /\ op' = "ne" => (ret'.val = "True" <=> Hist # Hist2)]_vars


\* ------------------------------------------------ properties of the Trique
\* the entries of the Trique, head first, and their values
TriqueChain(t) == TriqueIter(t)
TriqueValues(t) ==
    [i \in 1..Len(TriqueChain(t)) |-> t.mem[TriqueChain(t)[i]].value]

\* l[i] on a Python list
ListIndex(l, i) ==
    IF 0 <= i /\ i < Len(l)
    THEN [kind |-> "ok", val |-> l[i + 1], rev |-> 0]
    ELSE IF i < 0 /\ 0 - Len(l) <= i
         THEN [kind |-> "ok", val |-> l[Len(l) + i + 1], rev |-> 0]
         ELSE [kind |-> "IndexError", val |-> None, rev |-> 0]

\* C15: after any sequence of append, appendleft, pop and popleft applied to
\* a Trique and to a list, t[i] is the list's l[i] for every index in range,
\* negative ones included, wherever the cursor was, and IndexError for every
\* index outside the range
C15_IndexMatchesList ==
    [][op' = "Trique.getitem" => ret' = ListIndex(ref, arg')]_vars

\* 0-based position of the cursor from head; a cursor not yet set counts
\* as position 0
OnChain(t) == t.waist = Null \/ t.waist \in Range(TriqueChain(t))
CursorPos(t) ==
    IF t.waist = Null THEN 0
    ELSE (CHOOSE i \in 1..Len(TriqueChain(t)) : TriqueChain(t)[i] = t.waist) - 1

\* C16: with the cursor at position c of n elements, seek(k) moves the
\* cursor to c + k and returns the element there when 0 <= c + k < n, and
\* raises IndexError when c + k is outside that range or the Trique is
\* empty, k = 0 included
C16_RelativeSeek ==
    [][(op' = "Trique.seek" /\ OnChain(trique)) =>
        LET n == Len(TriqueChain(trique))
            to == CursorPos(trique) + arg'
        IN IF 0 <= to /\ to < n
           THEN /\ ret' = [kind |-> "ok", val |-> TriqueValues(trique)[to + 1],
                           rev |-> 0]
                /\ trique'.waist # Null
                /\ OnChain(trique')
                /\ CursorPos(trique') = to
           ELSE ret'.kind = "IndexError"]_vars

\* C17: after every operation that ran to its end or raised IndexError the
\* cursor is None or an entry reachable from head by next
C17_CursorOnChain == Alive => OnChain(trique)

\* the entry a removal takes out of the Trique t, Null when it takes none
Removed(t, o, i) ==
    IF o = "Trique.popleft" THEN t.head
    ELSE IF o = "Trique.pop" THEN popentry(t, i).e
    ELSE IF o = "Trique.popmiddle" THEN popmiddleentry(t, i).e
    ELSE IF i = 0 THEN t.head
    ELSE IF i = -1 \/ i = t.length - 1 THEN t.tail
    ELSE IF i >= t.length \/ seekindex(t, i).kind # "ok" THEN Null
    ELSE seekindex(t, i).t.waist

\* the Trique a removal leaves, before its entries are renamed
Removal(t, o, i) ==
    IF o = "Trique.popleft" THEN trique_popleft(t).t
    ELSE IF o = "Trique.pop" THEN trique_pop(t, i).t
    ELSE IF o = "Trique.popmiddle" THEN popmiddle(t, i).t
    ELSE trique_delitem(t, i).t

\* the removal by index or by offset puts the cursor on the entry it takes;
\* the removal at an end takes the entry the cursor is on when it is there
AtEnd(o, i) ==
    \/ o = "Trique.popleft"
    \/ o \in {"Trique.pop", "Trique.delitem"} /\ i \in {0, -1}
    \/ o = "Trique.delitem" /\ i = trique.length - 1
TakesCursor(t, o, i) == AtEnd(o, i) => t.waist = Removed(t, o, i)

Removals ==
    {"Trique.pop", "Trique.popleft", "Trique.popmiddle", "Trique.delitem"}

\* C18: when pop, popleft, pop(i), popmiddle or del t[i] removes the entry
\* the cursor is on, the cursor moves to the removed entry's next if it has
\* one, otherwise to its prev, and is None only when the Trique became empty
C18_CursorRehomed ==
    [][(/\ op' \in Removals
        /\ ret'.kind = "ok"
        /\ Removed(TSt, op', arg') # Null
        /\ TakesCursor(TSt, op', arg')) =>
        LET gone == Removed(TSt, op', arg')
            left == Removal(TSt, op', arg')
        IN /\ left.waist = OrElse(TSt.mem[gone].next, TSt.mem[gone].prev)
           /\ left.waist = Null => left.head = Null]_vars

\* C19: len(t) is the number of entries reachable from head, never
\* negative, and it is 0 exactly when head is None, exactly when tail is None
C19_LengthCounts ==
    /\ trique.length = Len(TriqueChain(trique))
    /\ trique.length >= 0
    /\ trique.length = 0 <=> trique.head = Null
    /\ trique.head = Null <=> trique.tail = Null

\* C20: on a Trique of n elements t[i] = v with 0 <= i < n replaces the
\* element at position i and leaves the others and their number alone, and
\* t[n] = v appends v
C20_SetOrGrow ==
    [][(/\ op' = "Trique.setitem"
        /\ 0 <= arg'
        /\ arg' <= Len(TriqueChain(trique))) =>
        /\ ret'.kind = "ok"
        /\ TriqueValues(trique') =
               IF arg' < Len(TriqueChain(trique))
               THEN [TriqueValues(trique) EXCEPT ![arg' + 1] = val']
               ELSE Append(TriqueValues(trique), val')]_vars


\* the list s with v put in as its element number p, counted from 0
InsertAt(s, p, v) == SubSeq(s, 1, p) \o <<v>> \o SubSeq(s, p + 1, Len(s))

\* the position insertmiddle or insert(k, v) inserts at: the cursor, moved
\* by k for insert; -1 when the cursor is not set or there is no such
\* position
InsertionPoint(t, o, k) ==
    IF Len(TriqueChain(t)) = 0 \/ ~OnChain(t) \/ t.waist = Null THEN -1
    ELSE IF o = "Trique.insertmiddle"
         THEN CursorPos(t)
         ELSE IF 0 <= CursorPos(t) + k /\ CursorPos(t) + k < Len(TriqueChain(t))
              THEN CursorPos(t) + k
              ELSE -1

\* C21: on a non-empty Trique, wherever the cursor is (the tail included),
\* insertmiddle(v), and insert(k, v) after its seek, adds one element
\* holding v next to the cursor, keeps the other elements in their order,
\* increases len(t) by one and leaves the cursor on the new element
C21_InsertAtCursor ==
    [][(/\ op' \in {"Trique.insertmiddle", "Trique.insert"}
        /\ InsertionPoint(trique, op', arg') >= 0) =>
        LET c == InsertionPoint(trique, op', arg')
        IN /\ ret'.kind = "ok"
           /\ trique'.length = trique.length + 1
           /\ trique'.waist # Null
           /\ OnChain(trique')
           /\ CursorPos(trique') \in {c, c + 1}
           /\ TriqueValues(trique') =
                  InsertAt(TriqueValues(trique), CursorPos(trique'), val')]_vars


\* the (revision, value) pairs of one queue of the map, head first
QueuePairs(q) ==
    IF q = "past" THEN Pairs(mem, QueueIter(mem, past))
    ELSE Pairs(mem, QueueIter(mem, future))
QueuePairsNext(q) ==
    IF q = "past" THEN Pairs(mem', QueueIter(mem', past'))
    ELSE Pairs(mem', QueueIter(mem', future'))

\* the call moves more than one entry and the queue holds that many
MultiPop(q) ==
    \/ op' = q \o ".popleft" /\ arg' > 0 /\ arg' <= Len(QueuePairs(q))
    \/ op' = q \o ".pop" /\ arg' < -1 /\ (0 - arg') - 1 <= Len(QueuePairs(q))

\* C22: Queue.popleft(n) with n > 0 and Queue.pop(i) with i < -1 end without
\* error, remove and return one entry, and put every other entry back, the
\* remaining entries keeping their order
C22_MultiPopRestores ==
    [][\A q \in QueueNames :
         MultiPop(q) =>
           /\ ret'.kind = "ok"
           /\ \E j \in 1..Len(QueuePairs(q)) :
                /\ QueuePairsNext(q) = Without(QueuePairs(q), j)
                /\ <<ret'.rev, ret'.val>> = QueuePairs(q)[j]
           /\ \A o \in QueueNames \ {q} : QueuePairsNext(o) = QueuePairs(o)]_vars


\* the Queue q is a well-formed list: head and tail are None together; next
\* from head runs through the entries to tail and then None, without a
\* cycle; prev from tail runs back through the same entries to head and
\* then None
WellLinked(m, q) ==
    LET c == ChainFrom(m, q.head, {})
    IN /\ q.head = Null <=> q.tail = Null
       /\ q.head # Null =>
            /\ m[q.head].prev = Null
            /\ c[Len(c)] = q.tail
            /\ m[c[Len(c)]].next = Null
            /\ \A k \in 1..(Len(c) - 1) : m[c[k + 1]].prev = c[k]

\* C23: after any sequence of map operations, comparison for equality
\* included, each queue of each map is a well-formed list, with no cycle
\* and no link into another queue or into a removed entry
C23_QueuesWellFormed ==
    /\ WellLinked(mem, past)
    /\ WellLinked(mem, future)
    /\ WellLinked(mem, past2)
    /\ WellLinked(mem, future2)

\* C24: a == b and a != b are pure reads: the queues of both maps, their
\* entries and the links between the entries are after the comparison what
\* they were before it
C24_ComparePure ==
    [][op' \in {"eq", "ne"} =>
        /\ mem' = mem
        /\ past' = past
        /\ future' = future
        /\ past2' = past2
        /\ future2' = future2]_vars


\* C25: __setitem__ takes any revision, also one below every recorded one
\* and below the one set before, with seeks, lookups and truncations in
\* between: its assertion rev > pastrev never fails, and the revisions of
\* _past followed by those of _future stay strictly ascending
C25_SetTotalOrdered ==
    /\ op = "setitem" => ret.kind = "ok"
    /\ StrictlyAscending(PastRevs \o FutureRevs)

\* a revision was set below all the recorded ones: it is alone in _past,
\* the revisions recorded before it are in _future
C25_Witness ==
    /\ op = "setitem"
    /\ ret.kind = "ok"
    /\ PastRevs = <<arg>>
    /\ Len(FutureRevs) >= 2
    /\ \A k \in 1..Len(FutureRevs) : arg < FutureRevs[k]


\* C26: Trique(data) and t.extend(iterable) add every element of the
\* iterable (one that has elements), in order, at the tail: iterating from head yields the elements
\* held before followed by those of the iterable, and len(t) has grown by
\* their number
C26_ExtendKeepsAll ==
    [][(op' = "Trique.extend" /\ batch' # <<>>) =>
        /\ ret'.kind = "ok"
        /\ TriqueValues(trique') = TriqueValues(trique) \o batch'
        /\ trique'.length = trique.length + Len(batch')]_vars

\* C27: a seek(k) that fails with IndexError because the walk would leave
\* the Trique at head or at tail leaves the cursor, when it was set, on the
\* entry it was on, and the contents as they were
C27_FailedSeekStays ==
    [][(/\ op' = "Trique.seek"
        /\ ret'.kind = "IndexError"
        /\ trique.waist # Null) => trique' = trique]_vars

====
